---- MODULE Spec2Model ----
(***************************************************************************)
(* Chuck Norris facts API: the five fact endpoints of app/main.py over the *)
(* data access layer app.db (get_fact, get_facts, insert_fact,             *)
(* update_fact, delete_fact).                                              *)
(***************************************************************************)
EXTENDS Integers, Sequences, FiniteSets, TLC

\* ---------------------------------------------------------------- bounds
\* Highest id the store hands out in a run (number of successful inserts).
MaxId == 3
\* Longest ids=... list of GET /facts/.
MaxIdsLen == 2
\* Number of requests in flight in the concurrent specification.
NReq == 3

\* ---------------------------------------------------------------- values
\* Text payloads: the empty string and two non-empty ones.
Texts == {"", "a", "b"}

\* Path parameter fact_id: any int; 0 is never stored, the others are
\* not yet assigned, live or deleted.
FactIds == 0 .. MaxId

\* ids query parameter when supplied: repeated integer values, at least one.
IdLists == UNION {[1 .. n -> FactIds] : n \in 1 .. MaxIdsLen}

\* Python truthiness of a str.
TruthyStr(s) == s # ""

\* Python truthiness of an int.
TruthyInt(n) == n # 0

\* Python truthiness of a list.
TruthyList(l) == Len(l) > 0

\* models.ChuckNorrisFactDb(id=..., fact=...)
ChuckNorrisFactDb(id, fact) == [id |-> id, fact |-> fact]

\* HTTP statuses (starlette.status)
HTTP_200_OK == 200
HTTP_201_CREATED == 201
HTTP_204_NO_CONTENT == 204
HTTP_307_TEMPORARY_REDIRECT == 307
HTTP_403_FORBIDDEN == 403
HTTP_404_NOT_FOUND == 404
HTTP_500_INTERNAL_SERVER_ERROR == 500

\* A response: status and the Facts of the JSON body (none on errors, 204
\* and the redirect).
Response(status, body) == [status |-> status, body |-> body]

\* raise HTTPException(status_code=...)
HTTPException(status) == Response(status, <<>>)

\* ------------------------------------------------- data access layer (db)
\* The store: rows id -> text, and the auto-increment counter.
DbState(store, nextId) == [store |-> store, nextId |-> nextId]

RangeOf(s) == {s[i] : i \in DOMAIN s}

Min(S) == CHOOSE m \in S : \A x \in S : m <= x

\* The rows (id, text) of the ids in S, as a list in ascending id.
RECURSIVE RowsOf(_, _)
RowsOf(store, S) ==
  IF S = {} THEN <<>>
  ELSE LET m == Min(S) IN <<<<m, store[m]>>>> \o RowsOf(store, S \ {m})

\* db.get_fact(fact_id) -> text; ObjectNotFoundError when no row matches.
db_get_fact(st, fact_id, fault) ==
  IF fault THEN [tag |-> "Unexpected", st |-> st, text |-> ""]
  ELSE IF fact_id \notin DOMAIN st.store
    THEN [tag |-> "NotFound", st |-> st, text |-> ""]
    ELSE [tag |-> "ok", st |-> st, text |-> st.store[fact_id]]

\* db.get_facts(ids) -> list of (id, text); all rows when ids is None, the
\* matching rows otherwise, ObjectNotFoundError when the filtered set is empty.
db_get_facts(st, omitted, ids, fault) ==
  IF fault THEN [tag |-> "Unexpected", st |-> st, rows |-> <<>>]
  ELSE IF omitted
    THEN [tag |-> "ok", st |-> st, rows |-> RowsOf(st.store, DOMAIN st.store)]
    ELSE LET hit == RangeOf(ids) \cap DOMAIN st.store IN
         IF hit = {}
           THEN [tag |-> "NotFound", st |-> st, rows |-> <<>>]
           ELSE [tag |-> "ok", st |-> st, rows |-> RowsOf(st.store, hit)]

\* db.insert_fact(text) -> (id, text); the store assigns the next id of its
\* auto-increment sequence, which never goes back.
db_insert_fact(st, fact, fault) ==
  IF fault THEN [tag |-> "Unexpected", st |-> st, id |-> 0, text |-> fact]
  ELSE [tag |-> "ok",
        st |-> DbState([i \in DOMAIN st.store \cup {st.nextId} |->
                          IF i = st.nextId THEN fact ELSE st.store[i]],
                       st.nextId + 1),
        id |-> st.nextId, text |-> fact]

\* db.update_fact(id, text); ObjectNotFoundError when id does not exist,
\* otherwise the stored text is replaced.
db_update_fact(st, fact_id, fact, fault) ==
  IF fault THEN [tag |-> "Unexpected", st |-> st]
  ELSE IF fact_id \notin DOMAIN st.store
    THEN [tag |-> "NotFound", st |-> st]
    ELSE [tag |-> "ok",
          st |-> DbState([st.store EXCEPT ![fact_id] = fact], st.nextId)]

\* db.delete_fact(id); ObjectNotFoundError when id does not exist, otherwise
\* the row is removed.
db_delete_fact(st, fact_id, fault) ==
  IF fault THEN [tag |-> "Unexpected", st |-> st]
  ELSE IF fact_id \notin DOMAIN st.store
    THEN [tag |-> "NotFound", st |-> st]
    ELSE [tag |-> "ok",
          st |-> DbState([i \in DOMAIN st.store \ {fact_id} |-> st.store[i]],
                         st.nextId)]

\* ---------------------------------------------------------- HTTP handlers
\* What a handler run yields: the store afterwards, the response, and the
\* number of data-access calls it made.
Handled(st, resp, calls) == [st |-> st, resp |-> resp, calls |-> calls]

\* GET /
root(st) == Handled(st, Response(HTTP_307_TEMPORARY_REDIRECT, <<>>), 0)

\* get_fact with the except clauses in the wrong order: the generic clause
\* catches ObjectNotFoundError too.
get_fact_generic_first(st, fact_id, fault) ==
  LET r == db_get_fact(st, fact_id, fault) IN
  IF r.tag # "ok"
    THEN Handled(r.st, HTTPException(HTTP_500_INTERNAL_SERVER_ERROR), 1)
  ELSE IF TruthyStr(r.text)
    THEN Handled(r.st, Response(HTTP_200_OK,
                                <<ChuckNorrisFactDb(fact_id, r.text)>>), 1)
    ELSE Handled(r.st, HTTPException(HTTP_404_NOT_FOUND), 1)

\* GET /fact/{fact_id}
get_fact(st, fact_id, fault) ==
  LET r == db_get_fact(st, fact_id, fault) IN
  IF r.tag = "NotFound"
    THEN Handled(r.st, HTTPException(HTTP_404_NOT_FOUND), 1)
  ELSE IF r.tag = "Unexpected"
    THEN Handled(r.st, HTTPException(HTTP_500_INTERNAL_SERVER_ERROR), 1)
  ELSE IF TruthyStr(r.text)
    THEN Handled(r.st, Response(HTTP_200_OK,
                                <<ChuckNorrisFactDb(fact_id, r.text)>>), 1)
    ELSE Handled(r.st, HTTPException(HTTP_404_NOT_FOUND), 1)

\* [chuck_norris_fact_db(id=id, fact=fact) for (id, fact) in facts]
FactsOfRows(rows) ==
  [i \in 1 .. Len(rows) |-> ChuckNorrisFactDb(rows[i][1], rows[i][2])]

\* get_facts that drops the last row of the result (off-by-one slice).
get_facts_drop_last(st, omitted, ids, fault) ==
  LET r == db_get_facts(st, omitted, ids, fault) IN
  IF r.tag = "NotFound"
    THEN Handled(r.st, HTTPException(HTTP_404_NOT_FOUND), 1)
  ELSE IF r.tag = "Unexpected"
    THEN Handled(r.st, HTTPException(HTTP_500_INTERNAL_SERVER_ERROR), 1)
  ELSE IF TruthyList(r.rows)
    THEN Handled(r.st, Response(HTTP_200_OK,
                   FactsOfRows(SubSeq(r.rows, 1, Len(r.rows) - 1))), 1)
  ELSE IF omitted
    THEN Handled(r.st, HTTPException(HTTP_500_INTERNAL_SERVER_ERROR), 1)
    ELSE Handled(r.st, HTTPException(HTTP_404_NOT_FOUND), 1)

\* GET /facts/?ids=...  On an empty result the 404 detail is built with
\* ",".join(map(str, ids)): with ids omitted (None) map() raises TypeError,
\* which no clause catches, and the server answers 500.
get_facts(st, omitted, ids, fault) ==
  LET r == db_get_facts(st, omitted, ids, fault) IN
  IF r.tag = "NotFound"
    THEN Handled(r.st, HTTPException(HTTP_404_NOT_FOUND), 1)
  ELSE IF r.tag = "Unexpected"
    THEN Handled(r.st, HTTPException(HTTP_500_INTERNAL_SERVER_ERROR), 1)
  ELSE IF TruthyList(r.rows)
    THEN Handled(r.st, Response(HTTP_200_OK, FactsOfRows(r.rows)), 1)
  ELSE IF omitted
    THEN Handled(r.st, HTTPException(HTTP_500_INTERNAL_SERVER_ERROR), 1)
    ELSE Handled(r.st, HTTPException(HTTP_404_NOT_FOUND), 1)

\* create_item that retries the insert once when it fails.
create_item_retry(st, fact, fault) ==
  LET r == db_insert_fact(st, fact, fault) IN
  IF r.tag # "ok"
    THEN LET r2 == db_insert_fact(r.st, fact, FALSE) IN
         Handled(r2.st, Response(HTTP_201_CREATED,
                                 <<ChuckNorrisFactDb(r2.id, r2.text)>>), 2)
  ELSE IF TruthyInt(r.id)
    THEN Handled(r.st, Response(HTTP_201_CREATED,
                                <<ChuckNorrisFactDb(r.id, r.text)>>), 1)
    ELSE Handled(r.st, HTTPException(HTTP_403_FORBIDDEN), 1)

\* POST /facts/
create_item(st, fact, fault) ==
  LET r == db_insert_fact(st, fact, fault) IN
  IF r.tag # "ok"
    THEN Handled(r.st, HTTPException(HTTP_500_INTERNAL_SERVER_ERROR), 1)
  ELSE IF TruthyInt(r.id)
    THEN Handled(r.st, Response(HTTP_201_CREATED,
                                <<ChuckNorrisFactDb(r.id, r.text)>>), 1)
    ELSE Handled(r.st, HTTPException(HTTP_403_FORBIDDEN), 1)

\* put_fact as an upsert: when the id does not exist the record is created
\* under that id.
put_fact_upsert(st, fact_id, fact, fault) ==
  LET r == db_update_fact(st, fact_id, fact, fault) IN
  IF r.tag = "NotFound"
    THEN Handled(DbState([i \in DOMAIN st.store \cup {fact_id} |->
                            IF i = fact_id THEN fact ELSE st.store[i]],
                         st.nextId),
                 Response(HTTP_204_NO_CONTENT, <<>>), 1)
  ELSE IF r.tag = "Unexpected"
    THEN Handled(r.st, HTTPException(HTTP_500_INTERNAL_SERVER_ERROR), 1)
    ELSE Handled(r.st, Response(HTTP_204_NO_CONTENT, <<>>), 1)

\* put_fact that skips the update when the new text is falsy (the guard of
\* get_fact copied over).
put_fact_skip_falsy(st, fact_id, fact, fault) ==
  LET r == IF TruthyStr(fact) \/ fact_id \notin DOMAIN st.store
             THEN db_update_fact(st, fact_id, fact, fault)
             ELSE db_update_fact(st, fact_id, st.store[fact_id], fault) IN
  IF r.tag = "NotFound"
    THEN Handled(r.st, HTTPException(HTTP_404_NOT_FOUND), 1)
  ELSE IF r.tag = "Unexpected"
    THEN Handled(r.st, HTTPException(HTTP_500_INTERNAL_SERVER_ERROR), 1)
    ELSE Handled(r.st, Response(HTTP_204_NO_CONTENT, <<>>), 1)

\* PUT /fact/{fact_id}
put_fact(st, fact_id, fact, fault) ==
  LET r == db_update_fact(st, fact_id, fact, fault) IN
  IF r.tag = "NotFound"
    THEN Handled(r.st, HTTPException(HTTP_404_NOT_FOUND), 1)
  ELSE IF r.tag = "Unexpected"
    THEN Handled(r.st, HTTPException(HTTP_500_INTERNAL_SERVER_ERROR), 1)
    ELSE Handled(r.st, Response(HTTP_204_NO_CONTENT, <<>>), 1)

\* delete_fact answering 404 on ObjectNotFoundError, like the other routes.
delete_fact_404(st, fact_id, fault) ==
  LET r == db_delete_fact(st, fact_id, fault) IN
  IF r.tag = "NotFound"
    THEN Handled(r.st, HTTPException(HTTP_404_NOT_FOUND), 1)
  ELSE IF r.tag = "Unexpected"
    THEN Handled(r.st, HTTPException(HTTP_500_INTERNAL_SERVER_ERROR), 1)
    ELSE Handled(r.st, Response(HTTP_204_NO_CONTENT, <<>>), 1)

\* DELETE /fact/{fact_id}
delete_fact(st, fact_id, fault) ==
  LET r == db_delete_fact(st, fact_id, fault) IN
  IF r.tag = "NotFound"
    THEN Handled(r.st, HTTPException(HTTP_403_FORBIDDEN), 1)
  ELSE IF r.tag = "Unexpected"
    THEN Handled(r.st, HTTPException(HTTP_500_INTERNAL_SERVER_ERROR), 1)
    ELSE Handled(r.st, Response(HTTP_204_NO_CONTENT, <<>>), 1)

\* ------------------------------------------------------------------ state
VARIABLES
  store,     \* the facts table: id -> text
  nextId,    \* the store's auto-increment counter
  last,      \* the request served last
  resp,      \* its response
  calls,     \* the number of data-access calls it made
  deleted,   \* history: ids whose DELETE answered 204
  assigned,  \* history: ids returned by a 201 of POST /facts/
  reqs,      \* concurrent specification: the requests in flight
  order      \* concurrent specification: requests in the order the store served them

vars == <<store, nextId, last, resp, calls, deleted, assigned, reqs, order>>

seqVars == <<last, resp, calls>>

concVars == <<reqs, order>>

Request(op, id, text, omitted, ids, fault) ==
  [op |-> op, id |-> id, text |-> text, omitted |-> omitted, ids |-> ids,
   fault |-> fault]

NoRequest == Request("none", 0, "", FALSE, <<>>, FALSE)

IdleReq == [op |-> "none", id |-> 0, text |-> "", state |-> "idle",
            status |-> 0]

\* A fresh service: empty table, first id 1, nothing served yet.
Init ==
  /\ store = <<>>
  /\ nextId = 1
  /\ last = NoRequest
  /\ resp = Response(0, <<>>)
  /\ calls = 0
  /\ deleted = {}
  /\ assigned = {}
  /\ reqs = [r \in 1 .. NReq |-> IdleReq]
  /\ order = <<>>

\* One request served start to end: the handler runs on the store, the
\* response goes back.
Serve(req, h) ==
  /\ store' = h.st.store
  /\ nextId' = h.st.nextId
  /\ last' = req
  /\ resp' = h.resp
  /\ calls' = h.calls
  /\ deleted' = IF req.op = "DELETE" /\ h.resp.status = HTTP_204_NO_CONTENT
                  THEN deleted \cup {req.id} ELSE deleted
  /\ assigned' = IF req.op = "POST" /\ h.resp.status = HTTP_201_CREATED
                   THEN assigned \cup {h.resp.body[1].id} ELSE assigned
  /\ UNCHANGED concVars

Root ==
  Serve(Request("ROOT", 0, "", FALSE, <<>>, FALSE),
        root(DbState(store, nextId)))

GetFact(fact_id, fault) ==
  Serve(Request("GET", fact_id, "", FALSE, <<>>, fault),
        get_fact(DbState(store, nextId), fact_id, fault))

GetFacts(omitted, ids, fault) ==
  Serve(Request("LIST", 0, "", omitted, ids, fault),
        get_facts(DbState(store, nextId), omitted, ids, fault))

CreateItem(fact, fault) ==
  /\ nextId <= MaxId
  /\ Serve(Request("POST", 0, fact, FALSE, <<>>, fault),
           create_item(DbState(store, nextId), fact, fault))

PutFact(fact_id, fact, fault) ==
  Serve(Request("PUT", fact_id, fact, FALSE, <<>>, fault),
        put_fact(DbState(store, nextId), fact_id, fact, fault))

DeleteFact(fact_id, fault) ==
  Serve(Request("DELETE", fact_id, "", FALSE, <<>>, fault),
        delete_fact(DbState(store, nextId), fact_id, fault))

\* Requests one after the other, the store answering every call.
Next ==
  \/ Root
  \/ \E fact_id \in FactIds : GetFact(fact_id, FALSE)
  \/ GetFacts(TRUE, <<>>, FALSE)
  \/ \E ids \in IdLists : GetFacts(FALSE, ids, FALSE)
  \/ \E fact \in Texts : CreateItem(fact, FALSE)
  \/ \E fact_id \in FactIds, fact \in Texts : PutFact(fact_id, fact, FALSE)
  \/ \E fact_id \in FactIds : DeleteFact(fact_id, FALSE)

Spec == Init /\ [][Next]_vars

\* Requests one after the other, any data-access call may fail with an
\* error other than ObjectNotFoundError (store unreachable, write rejected).
NextFault ==
  \/ Root
  \/ \E fact_id \in FactIds, fault \in BOOLEAN : GetFact(fact_id, fault)
  \/ \E fault \in BOOLEAN : GetFacts(TRUE, <<>>, fault)
  \/ \E ids \in IdLists, fault \in BOOLEAN : GetFacts(FALSE, ids, fault)
  \/ \E fact \in Texts, fault \in BOOLEAN : CreateItem(fact, fault)
  \/ \E fact_id \in FactIds, fact \in Texts, fault \in BOOLEAN :
       PutFact(fact_id, fact, fault)
  \/ \E fact_id \in FactIds, fault \in BOOLEAN : DeleteFact(fact_id, fault)

SpecFault == Init /\ [][NextFault]_vars

\* ------------------------------------------------- concurrent requests
\* Ids the concurrent requests aim at; both are in the store at the start.
ConcIds == {1, 2}

\* The service after POST "a" and POST "b", no request in flight.
InitConc ==
  /\ store = [i \in ConcIds |-> IF i = 1 THEN "a" ELSE "b"]
  /\ nextId = 3
  /\ last = NoRequest
  /\ resp = Response(0, <<>>)
  /\ calls = 0
  /\ deleted = {}
  /\ assigned = ConcIds
  /\ reqs = [r \in 1 .. NReq |-> IdleReq]
  /\ order = <<>>

\* Requests are numbered in the order they arrive.
CanArrive(r) ==
  /\ reqs[r].state = "idle"
  /\ IF r = 1 THEN TRUE ELSE reqs[r - 1].state # "idle"

\* PUT /fact/{fact_id} arrives; its handler has not called the store yet.
IssuePut(r, fact_id, fact) ==
  /\ CanArrive(r)
  /\ reqs' = [reqs EXCEPT ![r] = [op |-> "PUT", id |-> fact_id, text |-> fact,
                                  state |-> "pending", status |-> 0]]
  /\ UNCHANGED <<store, nextId, seqVars, deleted, assigned, order>>

\* DELETE /fact/{fact_id} arrives.
IssueDelete(r, fact_id) ==
  /\ CanArrive(r)
  /\ reqs' = [reqs EXCEPT ![r] = [op |-> "DELETE", id |-> fact_id, text |-> "",
                                  state |-> "pending", status |-> 0]]
  /\ UNCHANGED <<store, nextId, seqVars, deleted, assigned, order>>

\* The handler of a request in flight runs: its one data-access call is
\* atomic at the store, the status follows from its outcome.
Complete(r, h) ==
  /\ store' = h.st.store
  /\ nextId' = h.st.nextId
  /\ reqs' = [reqs EXCEPT ![r].state = "done", ![r].status = h.resp.status]
  /\ order' = Append(order, r)
  /\ deleted' = IF reqs[r].op = "DELETE" /\ h.resp.status = HTTP_204_NO_CONTENT
                  THEN deleted \cup {reqs[r].id} ELSE deleted
  /\ UNCHANGED <<seqVars, assigned>>

RunPut(r) ==
  /\ reqs[r].state = "pending" /\ reqs[r].op = "PUT"
  /\ Complete(r, put_fact(DbState(store, nextId), reqs[r].id, reqs[r].text,
                          FALSE))

RunDelete(r) ==
  /\ reqs[r].state = "pending" /\ reqs[r].op = "DELETE"
  /\ Complete(r, delete_fact(DbState(store, nextId), reqs[r].id, FALSE))

NextConc ==
  \/ \E r \in 1 .. NReq, fact_id \in ConcIds, fact \in Texts :
       IssuePut(r, fact_id, fact)
  \/ \E r \in 1 .. NReq, fact_id \in ConcIds : IssueDelete(r, fact_id)
  \/ \E r \in 1 .. NReq : RunPut(r)
  \/ \E r \in 1 .. NReq : RunDelete(r)

SpecConc == InitConc /\ [][NextConc]_vars

\* ----------------------------------------------------------------- claims
FactOps == {"GET", "LIST", "POST", "PUT", "DELETE"}

\* The body holds exactly one Fact per id of S, with the stored text.
ExactlyRecords(body, S) ==
  /\ Len(body) = Cardinality(S)
  /\ RangeOf(body) = {ChuckNorrisFactDb(i, store[i]) : i \in S}

\* C1: a POST /facts/ answered 201 with id N, followed at once by
\* GET /fact/N, reads back 200 with id N and exactly the posted text
\* (the empty string included).
C1_CreateThenRead ==
  [][(/\ last.op = "POST" /\ resp.status = HTTP_201_CREATED
      /\ last'.op = "GET" /\ last'.id = resp.body[1].id)
     => /\ resp'.status = HTTP_200_OK
        /\ resp'.body = <<ChuckNorrisFactDb(resp.body[1].id, last.text)>>]_vars

\* C2: DELETE of a present id answers 204 and removes the row; from then
\* on the id is never in the store again and every GET of it answers 404.
C2_DeleteThenRead ==
  [][/\ (last'.op = "DELETE" /\ last'.id \in DOMAIN store)
          => /\ resp'.status = HTTP_204_NO_CONTENT
             /\ last'.id \notin DOMAIN store'
             /\ last'.id \in deleted'
     /\ deleted' \cap DOMAIN store' = {}
     /\ (last'.op = "GET" /\ last'.id \in deleted')
          => resp'.status = HTTP_404_NOT_FOUND]_vars

\* A deleted id is read after later records were created.
C2_Witness ==
  /\ last.op = "GET" /\ last.id \in deleted
  /\ resp.status = HTTP_404_NOT_FOUND
  /\ \E j \in DOMAIN store : j > last.id

\* C3: PUT on a present id answers 204 and keeps the ids of the store; a
\* GET of the same id issued next answers 200 with that id and exactly the
\* new text.
C3_UpdateThenRead ==
  [][/\ (last'.op = "PUT" /\ last'.id \in DOMAIN store)
          => /\ resp'.status = HTTP_204_NO_CONTENT
             /\ DOMAIN store' = DOMAIN store
     /\ (/\ last.op = "PUT" /\ resp.status = HTTP_204_NO_CONTENT
         /\ last'.op = "GET" /\ last'.id = last.id)
          => /\ resp'.status = HTTP_200_OK
             /\ resp'.body = <<ChuckNorrisFactDb(last.id, last.text)>>]_vars

\* C4: GET /fact/{id} answers 404 for an id that is not in the store and
\* 200 with the record for an id that is.
C4_GetByPresence ==
  last.op = "GET"
    => /\ last.id \notin DOMAIN store => resp.status = HTTP_404_NOT_FOUND
       /\ last.id \in DOMAIN store
            => /\ resp.status = HTTP_200_OK
               /\ resp.body = <<ChuckNorrisFactDb(last.id, store[last.id])>>

\* C5: DELETE of an id that is not in the store answers 403 and leaves the
\* store as it was.
C5_DeleteAbsent ==
  [][(last'.op = "DELETE" /\ last'.id \notin DOMAIN store)
     => /\ resp'.status = HTTP_403_FORBIDDEN
        /\ store' = store]_vars

\* DELETE of an absent id answered on a store that holds records.
C5_Witness ==
  /\ last.op = "DELETE" /\ resp.status = HTTP_403_FORBIDDEN
  /\ Cardinality(DOMAIN store) >= 2

C7_IdsNeverReused ==
  [][/\ (last'.op = "POST" /\ resp'.status = HTTP_201_CREATED)
          => LET n == resp'.body[1].id IN
             /\ n \notin assigned /\ n \notin deleted
             /\ n \notin DOMAIN store
             /\ DOMAIN store' = DOMAIN store \cup {n}
     /\ last'.op \in {"ROOT", "GET", "LIST", "PUT"}
          => DOMAIN store' = DOMAIN store
     /\ last'.op = "DELETE" => DOMAIN store' \subseteq DOMAIN store]_vars

\* A record is created right after the record with the highest id was
\* deleted.
C7_Witness ==
  /\ last.op = "POST" /\ resp.status = HTTP_201_CREATED
  /\ resp.body[1].id - 1 \in deleted
  /\ resp.body[1].id \notin deleted

\* C8: on the five fact endpoints a data-access failure other than
\* NotFound is answered 500, never a success status, after exactly one
\* data-access call.
C8_UnexpectedIs500 ==
  (last.op \in FactOps /\ last.fault)
    => /\ resp.status = HTTP_500_INTERNAL_SERVER_ERROR
       /\ resp.status \notin {HTTP_200_OK, HTTP_201_CREATED, HTTP_204_NO_CONTENT}
       /\ calls = 1

\* An insert failed on a store that already holds a record.
C8_Witness ==
  /\ last.op = "POST" /\ last.fault
  /\ resp.status = HTTP_500_INTERNAL_SERVER_ERROR
  /\ DOMAIN store # {}

\* C10: GET /facts/ never answers 200 with an empty list, and answers 404
\* whenever the lookup returns no rows without raising.
C10_EmptyListIs404 ==
  last.op = "LIST"
    => /\ ~(resp.status = HTTP_200_OK /\ resp.body = <<>>)
       /\ LET r == db_get_facts(DbState(store, nextId), last.omitted,
                                last.ids, FALSE) IN
          (r.tag = "ok" /\ r.rows = <<>>) => resp.status = HTTP_404_NOT_FOUND

\* Position of request r in the order the store served the requests.
ServedAt(r) == CHOOSE k \in 1 .. Len(order) : order[k] = r

DonePuts(i) ==
  {r \in 1 .. NReq : reqs[r].state = "done" /\ reqs[r].op = "PUT" /\ reqs[r].id = i}

DoneDeletes(i) ==
  {r \in 1 .. NReq : reqs[r].state = "done" /\ reqs[r].op = "DELETE" /\ reqs[r].id = i}

LastServed(S) == CHOOSE r \in S : \A q \in S : ServedAt(q) <= ServedAt(r)

AllDone == \A r \in 1 .. NReq : reqs[r].state # "pending"

\* C9: once all requests in flight have completed, for an id that existed
\* at the start: with PUTs only, every PUT answered 204 and the stored text
\* is the text of the PUT the store served last; with a DELETE among them,
\* every PUT answered 204 or 404 and the record is absent.
C9_LastWriteWins ==
  AllDone =>
    \A i \in ConcIds :
      /\ (DoneDeletes(i) = {} /\ DonePuts(i) # {})
           => /\ \A r \in DonePuts(i) : reqs[r].status = HTTP_204_NO_CONTENT
              /\ i \in DOMAIN store
              /\ store[i] = reqs[LastServed(DonePuts(i))].text
      /\ DoneDeletes(i) # {}
           => /\ i \notin DOMAIN store
              /\ \A r \in DonePuts(i) :
                   reqs[r].status \in {HTTP_204_NO_CONTENT, HTTP_404_NOT_FOUND}

\* Two PUTs of one id with different texts overlapped: the one that arrived
\* second was served first, and the text of the first one is what is stored.
C9_Witness ==
  /\ AllDone
  /\ \E r1, r2 \in 1 .. NReq :
       /\ r1 < r2
       /\ reqs[r1].state = "done" /\ reqs[r2].state = "done"
       /\ reqs[r1].op = "PUT" /\ reqs[r2].op = "PUT"
       /\ reqs[r1].id = reqs[r2].id
       /\ reqs[r1].text # reqs[r2].text
       /\ DoneDeletes(reqs[r1].id) = {}
       /\ ServedAt(r2) < ServedAt(r1)
       /\ LastServed(DonePuts(reqs[r1].id)) = r1
       /\ store[reqs[r1].id] = reqs[r1].text

====
